---- MODULE Spec2Model ----
(***************************************************************************)
(* Model of the Choker congestion-control engine of src/src/lib.rs: the    *)
(* send buffer, the in-flight window, the RTO estimator and the window     *)
(* controller, with the operations enqueue (through buf()), set_ack and    *)
(* rto_tick.                                                               *)
(*                                                                         *)
(* Durations and the estimator's f64 fields are fixed-point integers in    *)
(* milliseconds; a blend is rounded down to a millisecond.  A non-finite   *)
(* or negative f64 never becomes a Duration: Duration::from_secs_f64       *)
(* panics on it, and the model records the panic.                          *)
(***************************************************************************)
EXTENDS Integers, Sequences, FiniteSets, TLC

\* ------------------------------------------------------------------ bounds

\* Chunks the caller enqueues and reconciliation passes it runs, in Spec.
MaxMsgs == 4
MaxTicks == 5
\* The run of SpecGrow: fewer chunks, enough passes for the growth step to
\* reach 3.
GrowMsgs == 2
GrowTicks == 8
\* The run of SpecLong: one chunk, enough passes to carry an 8-bit counter
\* past its last value (255 + LongExtra passes), of which LongClean find no
\* unacknowledged slot.
LongMsgs == 1
LongExtra == 5
LongClean == 10

\* The round-trip times (ms) an acknowledgment reports.
RTTs == {500, 8000}
\* The payload the caller hands over with message id mid: opaque bytes, a
\* different one for every message.
Payload(mid) == <<"bytes", mid>>

\* --------------------------------------------------------------- constants

\* u8::MAX, the last value of a slot's retransmission counter (lib.rs:11).
U8_MAX == 255
\* ALPHA = 1/8, BETA = 1/4, W_STRONG = 1/2, W_WEAK = 1/4 (lib.rs:140-143),
\* each kept as the denominator of its weight.
ALPHA_DEN == 8
BETA_DEN == 4
W_STRONG_DEN == 2
W_WEAK_DEN == 4
\* RTO::new: rto 2 s, strong = weak = 2.0, var_strong = var_weak = 0.2.
RTO_INIT == 2000
MEAN_INIT == 2000
VAR_INIT == 200

VARIABLES
    buf,            \* Choker::buf, front first: <<[mid, data], ...>>
    window,         \* Choker::window: <<[mid, t, rtt, data], ...>>
    rto,            \* Choker::rto: [rto, var_strong, strong, var_weak, weak]
    rto_start,      \* Choker::rto_start
    rto_end,        \* Choker::rto_end
    window_max,     \* Choker::window_max
    window_state,   \* Choker::window_state
    panicked,       \* "no", or the panic that ended the program
    op,             \* the operation that acted last
    mids,           \* the ids the last rto_tick returned
    calls,          \* the RTO::calc calls of the last rto_tick, in order
    nextId,         \* the next message id the caller assigns
    g,              \* history: passes run, passes that found no unacked slot
                    \* (clean), whether every pass so far was entered with its
                    \* relevant prefix acknowledged (allClean), and the passes
                    \* of such a run that were entered Rising (growPasses)
    cap,            \* the run's bounds: [msgs, ticks, clean]
    sent,           \* history: for each id, the passes that returned it
    pruned_ids      \* history: the ids of the slots retain has dropped

vars == <<buf, window, rto, rto_start, rto_end, window_max, window_state,
          panicked, op, mids, calls, nextId, g, cap, sent, pruned_ids>>

\* ------------------------------------------------------------------- types

\* Option<Duration>
None == <<>>
Some(d) == <<d>>
IsSome(o) == o # None
Unwrap(o) == o[1]

\* enum WindowState
Halted == [tag |-> "Halted"]
Rising(factor, conseq) == [tag |-> "Rising", factor |-> factor, conseq |-> conseq]

Min(a, b) == IF a < b THEN a ELSE b
Max(a, b) == IF a > b THEN a ELSE b

\* ------------------------------------------------------------ RTO estimator

\* RTO::new
RTONew ==
    [rto |-> RTO_INIT, var_strong |-> VAR_INIT, strong |-> MEAN_INIT,
     var_weak |-> VAR_INIT, weak |-> MEAN_INIT]

\* bias(a, weight, b) = (1 - weight) * a + b * weight, for weight = 1 / k.
bias(a, k, b) == (((k - 1) * a) + b) \div k

\* Duration::from_secs_f64: a negative (or non-finite) value panics.
FromSecsOk(secs) == secs >= 0

\* A faulty variant of calc: the test transmissions <= 2 is missing, every
\* retransmitted sample updates the weak pair.
calcNoDiscard(self, transmissions, rtt, weighted_against) ==
    IF weighted_against = 0 THEN [ok |-> FALSE, rto |-> self]
    ELSE IF transmissions = 0 THEN
        LET vs == bias(self.var_strong, BETA_DEN * weighted_against, self.strong - rtt)
            s == bias(self.strong, ALPHA_DEN * weighted_against, rtt)
            secs == bias(self.rto, W_STRONG_DEN * weighted_against, s + (4 * vs))
            upd == [self EXCEPT !.var_strong = vs, !.strong = s]
        IN  IF FromSecsOk(secs)
            THEN [ok |-> TRUE, rto |-> [upd EXCEPT !.rto = secs]]
            ELSE [ok |-> FALSE, rto |-> upd]
    ELSE
        LET vw == bias(self.var_weak, BETA_DEN * weighted_against, self.weak - rtt)
            w == bias(self.weak, ALPHA_DEN * weighted_against, rtt)
            secs == bias(self.rto, W_WEAK_DEN * weighted_against, w + vw)
            upd == [self EXCEPT !.var_weak = vw, !.weak = w]
        IN  IF FromSecsOk(secs)
            THEN [ok |-> TRUE, rto |-> [upd EXCEPT !.rto = secs]]
            ELSE [ok |-> FALSE, rto |-> upd]

\* RTO::calc.  The result is [ok, rto]: ok is FALSE when the call panics.
\* A sample with transmissions > 2 leaves secs as read from self.rto; the
\* round trip as_secs_f64 / from_secs_f64 of a Duration of this size gives
\* the Duration back, so rto keeps its value.
\* With weighted_against = 0 the weights BETA / 0.0, ALPHA / 0.0 and
\* W / 0.0 are +inf, every bias(..) is then NaN or an infinity, so secs is
\* not finite and Duration::from_secs_f64 panics.
calc(self, transmissions, rtt, weighted_against) ==
    IF transmissions = 0 THEN
        IF weighted_against = 0 THEN [ok |-> FALSE, rto |-> self]
        ELSE
            LET vs == bias(self.var_strong, BETA_DEN * weighted_against, self.strong - rtt)
                s == bias(self.strong, ALPHA_DEN * weighted_against, rtt)
                secs == bias(self.rto, W_STRONG_DEN * weighted_against, s + (4 * vs))
                upd == [self EXCEPT !.var_strong = vs, !.strong = s]
            IN  IF FromSecsOk(secs)
                THEN [ok |-> TRUE, rto |-> [upd EXCEPT !.rto = secs]]
                ELSE [ok |-> FALSE, rto |-> upd]
    ELSE IF transmissions <= 2 THEN
        IF weighted_against = 0 THEN [ok |-> FALSE, rto |-> self]
        ELSE
            LET vw == bias(self.var_weak, BETA_DEN * weighted_against, self.weak - rtt)
                w == bias(self.weak, ALPHA_DEN * weighted_against, rtt)
                secs == bias(self.rto, W_WEAK_DEN * weighted_against, w + vw)
                upd == [self EXCEPT !.var_weak = vw, !.weak = w]
            IN  IF FromSecsOk(secs)
                THEN [ok |-> TRUE, rto |-> [upd EXCEPT !.rto = secs]]
                ELSE [ok |-> FALSE, rto |-> upd]
    ELSE [ok |-> TRUE, rto |-> self]

\* ------------------------------------------------------------------ Choker

\* Choker::new: Instant::now() is the origin of the clock, rto_end is 2 s on.
DEADLINE_INIT == 2000

InitChoker ==
    /\ buf = <<>>
    /\ window = <<>>
    /\ rto = RTONew
    /\ rto_start = 0
    /\ rto_end = DEADLINE_INIT
    /\ window_max = 1
    /\ window_state = Halted
    /\ panicked = "no"
    /\ op = "new"
    /\ mids = <<>>
    /\ calls = <<>>
    /\ nextId = 1
    /\ g = [ticks |-> 0, clean |-> 0, allClean |-> TRUE, growPasses |-> 0]
    /\ sent = [m \in 1..MaxMsgs |-> 0]
    /\ pruned_ids = {}

Init == InitChoker /\ cap = [msgs |-> MaxMsgs, ticks |-> MaxTicks, clean |-> MaxTicks]

InitGrow == InitChoker /\ cap = [msgs |-> GrowMsgs, ticks |-> GrowTicks, clean |-> GrowTicks]

InitLong ==
    InitChoker /\ cap = [msgs |-> LongMsgs, ticks |-> U8_MAX + LongExtra, clean |-> LongClean]

\* The caller's enqueue: buf().push_back((mid, data)) with a fresh id.
Enqueue(mid, data) ==
    /\ panicked = "no"
    /\ nextId <= cap.msgs
    /\ mid = nextId
    /\ buf' = Append(buf, [mid |-> mid, data |-> data])
    /\ nextId' = nextId + 1
    /\ op' = "enqueue"
    /\ UNCHANGED <<window, rto, rto_start, rto_end, window_max, window_state,
                   panicked, mids, calls, g, cap, sent, pruned_ids>>

\* The index of the first slot of w with id mid, 0 when there is none.
FirstIdx(w, mid) ==
    IF \E i \in 1..Len(w) : w[i].mid = mid
    THEN CHOOSE i \in 1..Len(w) :
            /\ w[i].mid = mid
            /\ \A j \in 1..(i - 1) : w[j].mid # mid
    ELSE 0

\* The window after Choker::set_ack(mid, rtt): the first slot with that id
\* gets Some(rtt), whatever it held.
AckedWindow(w, mid, rtt) ==
    LET i == FirstIdx(w, mid)
    IN  IF i = 0 THEN w ELSE [w EXCEPT ![i].rtt = Some(rtt)]

\* Choker::set_ack
SetAck(mid, rtt) ==
    /\ panicked = "no"
    /\ mid <= cap.msgs
    /\ window' = AckedWindow(window, mid, rtt)
    /\ op' = "set_ack"
    /\ UNCHANGED <<buf, rto, rto_start, rto_end, window_max, window_state,
                   panicked, mids, calls, nextId, g, cap, sent, pruned_ids>>

\* Choker::relevant_window_len
relevant_window_len(wm, w) == Min(wm, Len(w))

\* rto_tick, line 61: the acknowledged slots of the relevant prefix.
CountAcked(wm, w) ==
    Cardinality({i \in 1..relevant_window_len(wm, w) : IsSome(w[i].rtt)})

\* rto_tick, lines 63-71: the slots retain keeps, and the ones it drops.
Retained(w) == SelectSeq(w, LAMBDA e : ~IsSome(e.rtt))
Removed(w) == SelectSeq(w, LAMBDA e : IsSome(e.rtt))

\* rto_tick, line 65: one RTO::calc call per dropped slot, in window order,
\* up to the first that panics.  [ok, rto, calls].
RECURSIVE CalcAll(_, _, _, _)
CalcAll(self, removed, acked, done) ==
    IF removed = <<>> THEN [ok |-> TRUE, rto |-> self, calls |-> done]
    ELSE
        LET e == Head(removed)
            call == [transmissions |-> e.t, rtt |-> Unwrap(e.rtt),
                     weighted_against |-> acked]
            r == calc(self, e.t, Unwrap(e.rtt), acked)
        IN  IF r.ok
            THEN CalcAll(r.rto, Tail(removed), acked, Append(done, call))
            ELSE [ok |-> FALSE, rto |-> r.rto, calls |-> Append(done, call)]

\* rto_tick, line 77: *t += 1 on a u8.
Incr(t) == (t + 1) % (U8_MAX + 1)

\* rto_tick, lines 75-79: the first len slots get one more transmission.
Advance(w, len) ==
    [i \in 1..Len(w) |-> IF i <= len THEN [w[i] EXCEPT !.t = Incr(w[i].t)] ELSE w[i]]

\* Faulty variants of Backoff: the whole of unacked taken off, with and
\* without reaching zero.
BackoffWhole(wm, unacked) ==
    IF wm >= unacked THEN wm - unacked ELSE 1

BackoffNoHalf(wm, unacked) ==
    IF wm > unacked THEN wm - unacked ELSE 1

\* rto_tick, lines 83-89: the capacity after a pass with unacked slots.
Backoff(wm, unacked) ==
    LET packet_min == unacked \div 2
    IN  IF wm > packet_min THEN wm - packet_min ELSE 1

\* A faulty variant of Grow: the pass that leaves Halted already starts at
\* factor 1.
GrowAtOnce(state) ==
    IF state.tag = "Rising" THEN
        LET f1 == IF state.factor = 0 THEN state.factor + 1 ELSE state.factor
            c1 == IF state.factor = 0 THEN state.conseq ELSE state.conseq + 1
        IN  IF c1 = 3 THEN Rising(f1 + 1, 0) ELSE Rising(f1, c1)
    ELSE Rising(1, 0)

\* A faulty variant of Grow: the factor rises after two passes, not three.
GrowEveryTwo(state) ==
    IF state.tag = "Rising" THEN
        LET f1 == IF state.factor = 0 THEN state.factor + 1 ELSE state.factor
            c1 == IF state.factor = 0 THEN state.conseq ELSE state.conseq + 1
        IN  IF c1 = 2 THEN Rising(f1 + 1, 0) ELSE Rising(f1, c1)
    ELSE Rising(0, 0)

\* rto_tick, lines 91-110: the state after a pass with no unacked slot.
Grow(state) ==
    IF state.tag = "Rising" THEN
        LET f1 == IF state.factor = 0 THEN state.factor + 1 ELSE state.factor
            c1 == IF state.factor = 0 THEN state.conseq ELSE state.conseq + 1
        IN  IF c1 = 3 THEN Rising(f1 + 1, 0) ELSE Rising(f1, c1)
    ELSE Rising(0, 0)

\* A faulty variant of Adjust: the test unacked > 0 written as unacked >= 0.
AdjustAlwaysHalts(wm, state, unacked) ==
    IF unacked >= 0
    THEN [window_max |-> Backoff(wm, unacked), window_state |-> Halted]
    ELSE [window_max |-> IF state.tag = "Rising" THEN wm + Grow(state).factor ELSE wm,
          window_state |-> Grow(state)]

\* rto_tick, lines 81-111: [window_max, window_state] after the adjustment.
Adjust(wm, state, unacked) ==
    IF unacked > 0
    THEN [window_max |-> Backoff(wm, unacked), window_state |-> Halted]
    ELSE [window_max |-> IF state.tag = "Rising" THEN wm + Grow(state).factor ELSE wm,
          window_state |-> Grow(state)]

\* A faulty variant of Refill: a window longer than the capacity is cut down
\* to it before the loop.
RECURSIVE RefillTruncating(_, _, _)
RefillTruncating(w, b, wm) ==
    IF Len(w) > wm THEN [window |-> SubSeq(w, 1, wm), buf |-> b]
    ELSE IF wm > Len(w) /\ b # <<>>
    THEN LET c == b[Len(b)]
         IN  RefillTruncating(Append(w, [mid |-> c.mid, t |-> 0, rtt |-> None, data |-> c.data]),
                              SubSeq(b, 1, Len(b) - 1), wm)
    ELSE [window |-> w, buf |-> b]

\* A faulty variant of Refill: pop_front in place of pop_back.
RECURSIVE RefillFromFront(_, _, _)
RefillFromFront(w, b, wm) ==
    IF wm > Len(w) /\ b # <<>>
    THEN LET c == b[1]
         IN  RefillFromFront(Append(w, [mid |-> c.mid, t |-> 0, rtt |-> None, data |-> c.data]),
                             Tail(b), wm)
    ELSE [window |-> w, buf |-> b]

\* A faulty variant of Refill: the chunk is read with back() and stays in the
\* queue.
RECURSIVE RefillKeepsChunk(_, _, _)
RefillKeepsChunk(w, b, wm) ==
    IF wm > Len(w) /\ b # <<>>
    THEN LET c == b[Len(b)]
         IN  RefillKeepsChunk(Append(w, [mid |-> c.mid, t |-> 0, rtt |-> None, data |-> c.data]),
                              b, wm)
    ELSE [window |-> w, buf |-> b]

\* A faulty variant of Refill: the loop test > written as >=.
RECURSIVE RefillOneMore(_, _, _)
RefillOneMore(w, b, wm) ==
    IF wm >= Len(w) /\ b # <<>>
    THEN LET c == b[Len(b)]
         IN  RefillOneMore(Append(w, [mid |-> c.mid, t |-> 0, rtt |-> None, data |-> c.data]),
                           SubSeq(b, 1, Len(b) - 1), wm)
    ELSE [window |-> w, buf |-> b]

\* rto_tick, lines 113-120: pop_back from the buffer while there is room.
RECURSIVE Refill(_, _, _)
Refill(w, b, wm) ==
    IF wm > Len(w) /\ b # <<>>
    THEN LET c == b[Len(b)]
         IN  Refill(Append(w, [mid |-> c.mid, t |-> 0, rtt |-> None, data |-> c.data]),
                    SubSeq(b, 1, Len(b) - 1), wm)
    ELSE [window |-> w, buf |-> b]

\* A faulty variant of Mids: the ids of the whole window.
MidsWholeWindow(wm, w) == [i \in 1..Len(w) |-> w[i].mid]

\* rto_tick, lines 125-126: the ids of the relevant prefix.
Mids(wm, w) == [i \in 1..relevant_window_len(wm, w) |-> w[i].mid]

\* rto_tick, lines 73-79: unacked, the length of the relevant prefix of what
\* retain kept of window w, under capacity wm.
Unacked(wm, w) == relevant_window_len(wm, Retained(w))

\* Every slot of the relevant prefix of w carries an RTT.
PrefixAcked(wm, w) == \A i \in 1..relevant_window_len(wm, w) : IsSome(w[i].rtt)

\* Choker::rto_tick(now).  overflow_checks is the build's choice for the u8
\* addition of line 77: it panics (debug) or wraps (release).
Tick(now, overflow_checks) ==
    /\ panicked = "no"
    /\ g.ticks < cap.ticks
    /\ Unacked(window_max, window) = 0 => g.clean < cap.clean
    /\ op' = "rto_tick"
    /\ LET acked == CountAcked(window_max, window)
           pruned == CalcAll(rto, Removed(window), acked, <<>>)
           kept == Retained(window)
           len == Unacked(window_max, window)
           overflow == \E i \in 1..len : kept[i].t = U8_MAX
           unacked == len
           adj == Adjust(window_max, window_state, unacked)
           fill == Refill(Advance(kept, len), buf, adj.window_max)
       IN  /\ calls' = pruned.calls
           /\ IF ~pruned.ok THEN
                  /\ panicked' = "from_secs_f64"
                  /\ UNCHANGED <<buf, window, rto, rto_start, rto_end, window_max,
                                 window_state, mids, g, sent, pruned_ids>>
              ELSE IF overflow /\ overflow_checks THEN
                  /\ panicked' = "add_overflow"
                  /\ UNCHANGED <<buf, window, rto, rto_start, rto_end, window_max,
                                 window_state, mids, g, sent, pruned_ids>>
              ELSE
                  /\ panicked' = "no"
                  /\ rto' = pruned.rto
                  /\ window_max' = adj.window_max
                  /\ window_state' = adj.window_state
                  /\ window' = fill.window
                  /\ buf' = fill.buf
                  /\ rto_start' = now
                  /\ rto_end' = now + pruned.rto.rto
                  /\ mids' = Mids(adj.window_max, fill.window)
                  /\ sent' = [m \in 1..MaxMsgs |->
                                IF \E i \in 1..Len(mids') : mids'[i] = m
                                THEN sent[m] + 1 ELSE sent[m]]
                  /\ pruned_ids' = pruned_ids \cup {Removed(window)[i].mid : i \in 1..Len(Removed(window))}
                  /\ g' = [ticks |-> g.ticks + 1,
                           clean |-> IF unacked = 0 THEN g.clean + 1 ELSE g.clean,
                           allClean |-> g.allClean /\ PrefixAcked(window_max, window),
                           growPasses |->
                               IF /\ g.allClean
                                  /\ PrefixAcked(window_max, window)
                                  /\ window_state.tag = "Rising"
                               THEN g.growPasses + 1 ELSE g.growPasses]
    /\ UNCHANGED <<nextId, cap>>

Next ==
    \/ \E mid \in 1..MaxMsgs : Enqueue(mid, Payload(mid))
    \/ \E mid \in 1..MaxMsgs, rtt \in RTTs : SetAck(mid, rtt)
    \/ \E overflow_checks \in BOOLEAN : Tick(rto_end, overflow_checks)

Spec == Init /\ [][Next]_vars

SpecGrow == InitGrow /\ [][Next]_vars

SpecLong == InitLong /\ [][Next]_vars

\* ------------------------------------------------------------- properties

\* The step is an rto_tick that returned.
TickReturned == op' = "rto_tick" /\ g'.ticks = g.ticks + 1

\* C1: RTO::calc is never invoked with weighted_against = 0: no call of the
\* last pass carries a zero weight.
C1_NoZeroWeight ==
    \A i \in 1..Len(calls) : calls[i].weighted_against # 0

\* C2: set_ack changes the window only in a slot whose RTT is not yet set:
\* a slot that already carries an RTT keeps it, and nothing else changes.
C2_AckOnce ==
    [][op' = "set_ack" =>
        /\ Len(window') = Len(window)
        /\ \A i \in 1..Len(window) :
              window'[i] # window[i] => ~IsSome(window[i].rtt)]_vars

\* C3: window_max >= 1 in every reachable state.
C3_WindowMaxPositive == window_max >= 1

\* A pass cut the capacity from 2 to the floor of 1 and left two slots.
C3_Witness ==
    /\ op = "rto_tick"
    /\ panicked = "no"
    /\ window_state = Halted
    /\ window_max = 1
    /\ Len(window) = 2

\* C4: a pass with unacked > 0 leaves window_max at
\* max(1, window_max - unacked / 2) and the state Halted.
C4_Backoff ==
    [][(TickReturned /\ Unacked(window_max, window) > 0) =>
        /\ window_max' = Max(1, window_max - (Unacked(window_max, window) \div 2))
        /\ window_state' = Halted]_vars

\* A pass found four unacked slots and cut the capacity from 4 to 2.
C4_Witness ==
    /\ op = "rto_tick"
    /\ panicked = "no"
    /\ window_state = Halted
    /\ window_max = 2
    /\ Len(window) = 4
    /\ \A i \in 1..4 : window[i].t >= 1

\* C5: in a run from the fresh engine whose passes are each entered with the
\* whole relevant prefix acknowledged, the k-th pass entered Rising adds
\* ceil(k / 3) to window_max: 1,1,1,2,2,2,3,3,3,...
C5_GrowthSchedule ==
    [][(TickReturned /\ g'.allClean /\ g'.growPasses = g.growPasses + 1) =>
        window_max' - window_max = (g.growPasses \div 3) + 1]_vars

\* Seven growing passes in such a run, both chunks sent and acknowledged on
\* the way: the step has reached 3.
C5_Witness ==
    /\ g.allClean
    /\ g.growPasses = 7
    /\ window_state = Rising(3, 0)
    /\ window_max = 13
    /\ nextId = 3
    /\ buf = <<>>
    /\ window = <<>>

\* C6 as stated: a pass entered with every slot of the relevant prefix
\* acknowledged neither lowers window_max nor leaves the state Halted.
C6_PrefixAckedGrows ==
    [][(TickReturned /\ PrefixAcked(window_max, window)) =>
        /\ window_max' >= window_max
        /\ window_state' # Halted]_vars

\* C6 amended: a pass entered with every slot of the window acknowledged
\* neither lowers window_max nor leaves the state Halted.
C6_AllAckedGrows ==
    [][(TickReturned /\ \A i \in 1..Len(window) : IsSome(window[i].rtt)) =>
        /\ window_max' >= window_max
        /\ window_state' # Halted]_vars

\* A pass pruned two acknowledged slots, found nothing unacked and grew.
C6_Witness ==
    /\ op = "rto_tick"
    /\ panicked = "no"
    /\ Len(calls) >= 2
    /\ window_state.tag = "Rising"
    /\ window_max >= 3

\* The slot of window w with id mid (ids are unique in a window).
SlotOf(w, mid) == w[FirstIdx(w, mid)]

\* The ids of the slots of w at positions after the first n.
IdsBeyond(w, n) == {w[i].mid : i \in (n + 1)..Len(w)}

\* C7, first part: a slot at or beyond the relevant prefix at the
\* attempt-increment step of a pass keeps its attempts through that pass.
C7_NoIncrementBeyond ==
    [][TickReturned =>
        \A m \in IdsBeyond(Retained(window), Unacked(window_max, window)) :
            /\ FirstIdx(window', m) # 0
            /\ SlotOf(window', m).t = SlotOf(window, m).t]_vars

\* C7, second part: a slot at or beyond the relevant prefix after refill is
\* not among the ids the pass returns.
C7_NotReturnedBeyond ==
    \A m \in IdsBeyond(window, relevant_window_len(window_max, window)) :
        \A i \in 1..Len(mids) : mids[i] # m

\* C7: the relevance boundary, all three parts: no increment and no
\* transmission beyond the relevant prefix, and a slot beyond it that set_ack
\* acknowledged is pruned by the next pass.
C7_RelevanceBoundary ==
    [][op' = "rto_tick" =>
        /\ TickReturned =>
              \A m \in IdsBeyond(Retained(window), Unacked(window_max, window)) :
                  /\ FirstIdx(window', m) # 0
                  /\ SlotOf(window', m).t = SlotOf(window, m).t
        /\ TickReturned =>
              \A m \in IdsBeyond(window', relevant_window_len(window_max', window')) :
                  \A i \in 1..Len(mids') : mids'[i] # m
        /\ \A m \in IdsBeyond(window, relevant_window_len(window_max, window)) :
              IsSome(SlotOf(window, m).rtt) =>
                  /\ panicked' = "no"
                  /\ FirstIdx(window', m) = 0]_vars

\* C8 as stated: when a pass returns, the window is no longer than window_max
\* unless the pass lowered window_max.
C8_ExceedsOnlyIfReduced ==
    [][TickReturned =>
        \/ Len(window') <= window_max'
        \/ window_max' < window_max]_vars

\* C8 amended: when a pass returns, the window is no longer than window_max
\* unless the pass lowered window_max or the window was already longer than
\* window_max when the pass was entered.
C8_ExceedsOnlyIfReducedOrCarried ==
    [][TickReturned =>
        \/ Len(window') <= window_max'
        \/ window_max' < window_max
        \/ Len(window) > window_max]_vars

\* A pass returned with the window longer than window_max and had found it
\* so: of two slots admitted together, the front one has been advanced once
\* more than the one the capacity cut left beyond the prefix.
C8_Witness ==
    /\ op = "rto_tick"
    /\ panicked = "no"
    /\ window_max = 1
    /\ Len(window) = 2
    /\ window[1].t = 2
    /\ window[2].t = 1

\* C9: the blended RTO is never negative and no pass fails on a sample that
\* was recorded with a positive batch weight.
C9_RtoValid ==
    /\ rto.rto >= 0
    /\ panicked = "from_secs_f64" => calls[Len(calls)].weighted_against = 0

\* C10: a pass adds exactly one to the attempts of every unacknowledged slot
\* of the relevant prefix after pruning, whatever the count so far, and no
\* other operation changes a slot's attempts.
C10_AttemptsIncrease ==
    [][/\ (op' = "rto_tick" /\ panicked' # "from_secs_f64") =>
            /\ panicked' = "no"
            /\ \A i \in 1..Unacked(window_max, window) :
                  /\ Len(window') >= i
                  /\ window'[i].mid = Retained(window)[i].mid
                  /\ window'[i].t = Retained(window)[i].t + 1
       /\ op' # "rto_tick" =>
            \A i \in 1..Len(window) :
                /\ Len(window') >= i
                /\ window'[i].t = window[i].t]_vars

\* The ids of the slots of w.
Ids(w) == {w[i].mid : i \in 1..Len(w)}

\* What a pass entered with the window as it is has done to the acknowledged
\* slots once the primed state is reached: each is gone, calc was called once
\* for each, in window order, with its attempts and RTT, and no slot left in
\* the window carries an RTT.
AckedAllPruned ==
    /\ \A i \in 1..Len(window) :
          IsSome(window[i].rtt) => window[i].mid \notin Ids(window')
    /\ Len(calls') = Len(Removed(window))
    /\ \A k \in 1..Len(calls') :
          /\ calls'[k].transmissions = Removed(window)[k].t
          /\ calls'[k].rtt = Unwrap(Removed(window)[k].rtt)
    /\ \A i \in 1..Len(window') : ~IsSome(window'[i].rtt)

\* C11, for the passes that return: every acknowledged slot is removed
\* and sampled once, and none is left.
C11_PrunedOnReturn == [][TickReturned => AckedAllPruned]_vars

\* C11: every slot acknowledged when a pass is invoked, inside the relevant
\* prefix or beyond it, is removed by that pass with exactly one calc call,
\* and the pass leaves no slot with an RTT.
C11_AckedSlotsPruned ==
    [][op' = "rto_tick" => (panicked' = "no" /\ AckedAllPruned)]_vars

\* C12: a slot leaves the window only by being acknowledged.  A pass keeps
\* every unacknowledged slot, in the same relative order at the front of the
\* window, with its id and payload, and with its attempts unless the slot is
\* in the prefix the pass advances; no other operation moves or changes a
\* slot's id, attempts or payload.
C12_UnackedKept ==
    [][IF TickReturned
       THEN \A i \in 1..Len(Retained(window)) :
                /\ Len(window') >= i
                /\ window'[i].mid = Retained(window)[i].mid
                /\ window'[i].data = Retained(window)[i].data
                /\ ~IsSome(window'[i].rtt)
                /\ window'[i].t # Retained(window)[i].t
                      => i <= Unacked(window_max, window)
       ELSE /\ Len(window') = Len(window)
            /\ \A i \in 1..Len(window) :
                  /\ window'[i].mid = window[i].mid
                  /\ window'[i].data = window[i].data
                  /\ window'[i].t = window[i].t]_vars

\* A pass found three unacked slots, cut the capacity from 3 to 2, and the
\* three are still in the window, each with its own payload.
C12_Witness ==
    /\ op = "rto_tick"
    /\ panicked = "no"
    /\ window_state = Halted
    /\ window_max = 2
    /\ Len(window) = 3
    /\ \A i \in 1..3 :
          /\ window[i].t = 1
          /\ window[i].data = Payload(window[i].mid)

\* The ids in the sequence q.
Range(q) == {q[i] : i \in 1..Len(q)}

\* C13: the ids a pass returns are the ids of the first
\* min(window_max, window length) slots of the window it leaves, in window
\* order; they include every advanced slot still in that prefix and every
\* slot the pass admitted, and no id of a slot that was acknowledged.
C13_ReturnedIds ==
    [][TickReturned =>
        /\ Len(mids') = Min(window_max', Len(window'))
        /\ \A i \in 1..Len(mids') : mids'[i] = window'[i].mid
        /\ \A i \in 1..Unacked(window_max, window) :
              i <= window_max' => Retained(window)[i].mid \in Range(mids')
        /\ Ids(window') \ Ids(window) \subseteq Range(mids')
        /\ \A i \in 1..Len(window) :
              IsSome(window[i].rtt) => window[i].mid \notin Range(mids')]_vars

\* A pass pruned an acknowledged slot and returned two ids: a slot it
\* advanced and a slot it had just admitted.
C13_Witness ==
    /\ op = "rto_tick"
    /\ panicked = "no"
    /\ Len(calls) >= 1
    /\ Len(mids) = 2
    /\ Len(window) = 2
    /\ window[1].t >= 1
    /\ window[2].t = 0

\* The first pass of a fresh engine with at least three chunks queued: it
\* leaves window_max at 1, admits the chunk at the back and returns its id.
FirstPassEffect ==
    /\ window_max' = 1
    /\ Len(window') = 1
    /\ window'[1].mid = buf[Len(buf)].mid
    /\ buf' = SubSeq(buf, 1, Len(buf) - 1)
    /\ mids' = <<buf[Len(buf)].mid>>

\* The second pass, entered with the one admitted slot acknowledged and two
\* chunks or more queued: the slot is pruned with one sample (attempts 0,
\* weight 1), the state is Rising, window_max is 2, and the two chunks at the
\* back are admitted and their ids returned.
SecondPassEffect ==
    /\ window[1].mid \notin Ids(window')
    /\ calls' = <<[transmissions |-> 0, rtt |-> Unwrap(window[1].rtt),
                   weighted_against |-> 1]>>
    /\ window_state'.tag = "Rising"
    /\ window_max' = 2
    /\ Len(window') = 2
    /\ buf' = SubSeq(buf, 1, Len(buf) - 2)
    /\ mids' = <<buf[Len(buf)].mid, buf[Len(buf) - 1].mid>>
    /\ mids' = <<window'[1].mid, window'[2].mid>>

FirstPass == op' = "rto_tick" /\ g.ticks = 0 /\ Len(buf) >= 3

SecondPass ==
    /\ op' = "rto_tick"
    /\ g.ticks = 1
    /\ Len(window) = 1
    /\ IsSome(window[1].rtt)
    /\ Len(buf) >= 2

\* C14, for the passes that return: the end-to-end scenario.
C14_EndToEndReturned ==
    [][/\ (FirstPass /\ TickReturned) => FirstPassEffect
       /\ (SecondPass /\ TickReturned) => SecondPassEffect]_vars

\* C14: the end-to-end scenario: both passes run to their end with the
\* effects above, whatever RTT the acknowledgment reports.
C14_EndToEnd ==
    [][/\ FirstPass => (panicked' = "no" /\ FirstPassEffect)
       /\ SecondPass => (panicked' = "no" /\ SecondPassEffect)]_vars

\* The chunks a pass admits: as many as the room the adjusted capacity
\* leaves after pruning, or the whole queue if that is less.
Admitted == Min(Len(buf), Max(0, window_max' - Len(Retained(window))))

\* C15: admission is last-in.  A pass takes its chunks off the back of the
\* queue, the most recently enqueued first, and appends each to the end of
\* the window with attempts 0 and no RTT, until the window has window_max
\* slots or the queue is empty; the chunks enqueued earlier stay queued, in
\* order.  Enqueue adds at the back.
C15_LastInAdmission ==
    [][/\ TickReturned =>
            /\ Len(window') = Len(Retained(window)) + Admitted
            /\ buf' = SubSeq(buf, 1, Len(buf) - Admitted)
            /\ \A k \in 1..Admitted :
                  window'[Len(Retained(window)) + k] =
                      [mid |-> buf[Len(buf) - k + 1].mid, t |-> 0, rtt |-> None,
                       data |-> buf[Len(buf) - k + 1].data]
       /\ op' = "enqueue" =>
            /\ Len(buf') = Len(buf) + 1
            /\ SubSeq(buf', 1, Len(buf)) = buf]_vars

\* A pass admitted two chunks, the later-enqueued first, and left an earlier
\* one queued.
C15_Witness ==
    /\ op = "rto_tick"
    /\ panicked = "no"
    /\ Len(window) = 2
    /\ window[1].t = 0
    /\ window[2].t = 0
    /\ window[1].mid > window[2].mid
    /\ buf # <<>>
    /\ buf[Len(buf)].mid < window[2].mid

\* C16: a pass with unacked = 0 entered Halted leaves the state
\* Rising{factor: 0, conseq: 0} and window_max as it was; the next pass with
\* unacked = 0 makes the factor 1 and adds exactly 1 to window_max.
C16_LeavingHalted ==
    [][(TickReturned /\ Unacked(window_max, window) = 0) =>
        /\ window_state = Halted =>
              /\ window_state' = Rising(0, 0)
              /\ window_max' = window_max
        /\ window_state = Rising(0, 0) =>
              /\ window_state' = Rising(1, 0)
              /\ window_max' = window_max + 1]_vars

\* A pass that found an unacked slot had halted the window; the slot was
\* acknowledged and two clean passes followed: the factor is 1 and window_max
\* has grown from 1 to 2.
C16_Witness ==
    /\ op = "rto_tick"
    /\ panicked = "no"
    /\ g.clean < g.ticks
    /\ pruned_ids # {}
    /\ window_state = Rising(1, 0)
    /\ window_max = 2

\* The attempts of the samples a pass entered with the window as it is
\* hands to calc.
SampledAttempts == {Removed(window)[k].t : k \in 1..Len(Removed(window))}

\* C17: a sample with attempts > 2 is discarded: a pass whose samples all
\* have attempts > 2 leaves the strong pair, the weak pair and the rto as
\* they were; a pass with no sample of attempts 1 or 2 leaves the weak pair,
\* and a pass with no sample of attempts 0 leaves the strong pair.
C17_Discard ==
    [][TickReturned =>
        /\ (\A t \in SampledAttempts : t > 2) => rto' = rto
        /\ (\A t \in SampledAttempts : t \notin {1, 2}) =>
              /\ rto'.weak = rto.weak
              /\ rto'.var_weak = rto.var_weak
        /\ (\A t \in SampledAttempts : t # 0) =>
              /\ rto'.strong = rto.strong
              /\ rto'.var_strong = rto.var_strong]_vars

\* A pass sampled a slot with more than two attempts, with a positive weight,
\* on an estimator that an earlier sample had already moved.
C17_Witness ==
    /\ op = "rto_tick"
    /\ panicked = "no"
    /\ rto # RTONew
    /\ \E k \in 1..Len(calls) :
          /\ calls[k].transmissions > 2
          /\ calls[k].weighted_against >= 1

\* C18: at the time a slot is sampled its attempts are one less than the
\* number of passes that returned its id.
C18_AttemptsAreReturns ==
    [][TickReturned =>
        \A k \in 1..Len(Removed(window)) :
            Removed(window)[k].t = sent[Removed(window)[k].mid] - 1]_vars

\* The number of places of sequence q that hold id m.
Occurrences(q, m) == Cardinality({i \in 1..Len(q) : q[i].mid = m})

\* Every enqueued id is in exactly one of the queue, the window and the pruned
\* ids, and at most once there.
Conserved ==
    \A m \in 1..(nextId - 1) :
        Occurrences(buf, m) + Occurrences(window, m)
            + (IF m \in pruned_ids THEN 1 ELSE 0) = 1

\* C19: conservation of messages: in every state each enqueued id is in
\* exactly one of the send queue, the window and the pruned ids, no id is
\* twice in the window, and an id that has left the queue never enters it
\* again, so a chunk is admitted at most once.
C19_Conservation ==
    /\ []Conserved
    /\ [][\A m \in 1..(nextId - 1) :
            Occurrences(buf, m) = 0 => Occurrences(buf', m) = 0]_vars

\* All four ids are enqueued: some wait in the queue, some are in the
\* window and some are pruned.
C19_Witness ==
    /\ nextId = MaxMsgs + 1
    /\ buf # <<>>
    /\ window # <<>>
    /\ pruned_ids # {}

\* What is left to do: a queued chunk has to be admitted and pruned, a slot
\* has to be pruned.
Remaining == (3 * Len(buf)) + (2 * Len(window))

\* The caller has acknowledged every id that the last pass returned, and
\* something is left in the queue or in the window.
AllReturnedAcked ==
    /\ panicked = "no"
    /\ buf # <<>> \/ window # <<>>
    /\ \A i \in 1..Len(window) :
          (\E j \in 1..Len(mids) : mids[j] = window[i].mid) => IsSome(window[i].rtt)

\* Every pass that returns after the caller acknowledged all returned ids
\* prunes or admits something, and every id that is pruned was returned by
\* some pass.
C20_ProgressReturned ==
    [][AllReturnedAcked /\ TickReturned =>
        /\ Remaining' < Remaining
        /\ \A m \in pruned_ids' : sent'[m] >= 1]_vars

\* C20: progress: when every returned id is acknowledged before the next
\* pass, each pass completes and brings the queue and the window closer to
\* empty, so that after finitely many passes both are empty.
C20_Progress ==
    [][AllReturnedAcked /\ op' = "rto_tick" =>
        /\ panicked' = "no"
        /\ Remaining' < Remaining]_vars

====
